---- MODULE Spec2Model ----
(***************************************************************************)
(* A model of the SLIP / VICReg pretraining objectives of mm_pkg.methods:  *)
(* the MoCo-v2 feature queue of SLIP_MOCOV2 (_build_model,                 *)
(* _dequeue_and_enqueue) and the per-step programs shared_forward of       *)
(* SLIP_MOCOV2, SLIP_SIMCLR and VICREG run by the replicas of a            *)
(* data-parallel world.                                                    *)
(*                                                                         *)
(* Tensors are functions over 0-based index ranges, as in the source:      *)
(*   queue  (2, D, C)   queue[s][d][c]                                     *)
(*   keys   (2, b, D)   keys[s][i][d]                                      *)
(*   a batch of embeddings (b, D)   x[i][d]                                *)
(* Tensor elements are integers (codes of the real numbers).               *)
(***************************************************************************)
EXTENDS Integers, Sequences, FiniteSets, TLC

VARIABLES
    hparams,      \* self.hparams: the hyperparameters fixed at construction
    method,       \* which class of METHODS the instances are
    queue,        \* queue[r]: buffer "queue" of replica r, shape (2, D, C)
    queue_ptr,    \* queue_ptr[r]: buffer "queue_ptr" of replica r
    params,       \* params[r]: the parameters of replica r's modules
    call,         \* the last direct call of _dequeue_and_enqueue and its outcome
    hist,         \* the direct calls made since construction, oldest first
    step,         \* training/validation steps begun so far
    mode,         \* the mode argument of the shared_forward in progress
    pc,           \* pc[r]: where replica r stands in shared_forward
    loc,          \* loc[r]: the local variables of replica r's shared_forward
    posted,       \* posted[r]: what replica r handed to the collective it is in
    log,          \* log[r]: the collectives replica r invoked in this step
    out,          \* out[r]: the mapping replica r's shared_forward returned
    entry         \* entry[r]: replica r's queue when the step began

vars ==
    <<hparams, method, queue, queue_ptr, params, call, hist,
      step, mode, pc, loc, posted, log, out, entry>>

\* ------------------------------------------------------------------ bounds

\* direct calls of _dequeue_and_enqueue made on one instance
MaxCalls == 4

\* training/validation steps run by the replicas
MaxSteps == 2

\* ------------------------------------------------------ hyperparameters

\* The queue-level configuration: one process, capacity 8, embedding dim 2.
QueueHparams ==
    { [queue_size |-> 8, mocov2_proj_output_dim |-> 2, gpus |-> 1,
       num_nodes |-> 1, batch_size |-> 4] }

\* keys.shape[1] of the batches handed to _dequeue_and_enqueue directly
BatchSizes == 0 .. 4

\* seeds of torch.randn for the initial queue content
Seeds == {1, 2}

Streams == {0, 1}

WorldSize(h) == h.gpus * h.num_nodes

Ranks(h) == 0 .. (WorldSize(h) - 1)

Dims(h) == 0 .. (h.mocov2_proj_output_dim - 1)

Cols(h) == 0 .. (h.queue_size - 1)

\* ------------------------------------------------------------ tensors

\* x.shape[1] of a (2, b, D) tensor
Shape1(keys) == Cardinality(DOMAIN keys[0])

\* keys.permute(0, 2, 1): (2, b, D) -> (2, D, b)
\* (ViewAs2Db is what keys.view(2, D, b) would give: the same memory read
\* row-major in the new shape)
ViewAs2Db(keys, dims) ==
    LET b == Cardinality(DOMAIN keys[0])
        D == Cardinality(dims)
    IN  [s \in Streams |-> [d \in dims |-> [i \in DOMAIN keys[s] |->
            keys[s][(d * b + i) \div D][(d * b + i) % D]]]]

Permute021(keys, dims) ==
    [s \in Streams |-> [d \in dims |-> [i \in DOMAIN keys[s] |-> keys[s][i][d]]]]

\* the columns selected by the slice lo:hi of an axis of length n
\* (Python clips the slice to the axis)
SliceCols(lo, hi, n) == { c \in 0 .. (n - 1) : lo <= c /\ c < hi }

\* Whether a value of width w can be copied into a slice of width n: the
\* widths must agree (torch would broadcast a value of width 1 over a wider
\* slice, but the slice ptr:ptr+w is never wider than w).
CanAssign(w, n) == w = n

\* column c of stream s of a (2, D, C) tensor, as a D-vector
Column(q, s, c) == [d \in DOMAIN q[s] |-> q[s][d][c]]

\* torch.randn followed by normalize(dim=0): some content, here negative
\* codes so that it is told from every enqueued key
RandnQueue(seed, h) ==
    [s \in Streams |-> [d \in Dims(h) |-> [c \in Cols(h) |->
        0 - (1 + ((seed + s + 2 * d + 3 * c) % 5))]]]

\* ----------------------------------------------- _dequeue_and_enqueue

\* line 58: assert self.hparams.queue_size % batch_size == 0
\* (evaluating the modulus by zero raises ZeroDivisionError)
\* (AssertOutcomeDropped: a faulty variant without the assert)
AssertOutcomeDropped(queue_size, batch_size) == "ok"

AssertOutcome(queue_size, batch_size) ==
    IF batch_size = 0 THEN "ZeroDivisionError"
    ELSE IF queue_size % batch_size = 0 THEN "ok"
    ELSE "AssertionError"

\* line 62: self.queue[:, :, ptr : ptr + batch_size] = keys
\* q is (2, D, C), val is (2, D, b): column c of the slice receives
\* val[..][c - ptr]
\* (SliceAssignReversed: a faulty variant that fills the slice back to front)
SliceAssignReversed(q, ptr, val, b) ==
    [s \in Streams |-> [d \in DOMAIN q[s] |-> [c \in DOMAIN q[s][d] |->
        IF ptr <= c /\ c < ptr + b
        THEN val[s][d][(b - 1) - (c - ptr)]
        ELSE q[s][d][c]]]]

SliceAssign(q, ptr, val, b) ==
    [s \in Streams |-> [d \in DOMAIN q[s] |-> [c \in DOMAIN q[s][d] |->
        IF ptr <= c /\ c < ptr + b
        THEN val[s][d][c - ptr]
        ELSE q[s][d][c]]]]

\* line 63: ptr = (ptr + batch_size) % self.hparams.queue_size
\* (MovePointerNoWrap: a faulty variant without the modulus)
MovePointerNoWrap(ptr, batch_size, queue_size) == ptr + batch_size

MovePointer(ptr, batch_size, queue_size) == (ptr + batch_size) % queue_size

\* The whole method on an instance with buffers q, ptr: the buffers after
\* the call and the exception it raised ("ok" when it returned).
DequeueAndEnqueue(q, ptr, keys, h) ==
    LET batch_size == Shape1(keys)
        checked == AssertOutcome(h.queue_size, batch_size)
        width == Cardinality(SliceCols(ptr, ptr + batch_size, h.queue_size))
    IN  IF checked # "ok"
        THEN [queue |-> q, queue_ptr |-> ptr, raised |-> checked]
        ELSE IF ~CanAssign(batch_size, width)
        THEN [queue |-> q, queue_ptr |-> ptr, raised |-> "RuntimeError"]
        ELSE [queue |-> SliceAssign(q, ptr, Permute021(keys, Dims(h)), batch_size),
              queue_ptr |-> MovePointer(ptr, batch_size, h.queue_size),
              raised |-> "ok"]

\* ------------------------------------------------- construction

\* The modules each method builds in _build_model.
Modules(m) ==
    CASE m = "slip_mocov2" ->
            {"img_backbone", "img_backbone_ema", "text_backbone", "img_projector",
             "text_projector", "mocov2_projector", "mocov2_projector_ema"}
      [] m = "slip_simclr" ->
            {"img_backbone", "text_backbone", "img_projector", "text_projector",
             "simclr_projector"}
      [] OTHER -> {"img_backbone", "vicreg_projector"}

\* _build_model: the momentum modules are deepcopies of the online ones, so
\* every module starts from the same (here: zero) parameter value.
BuildParams(m) == [x \in Modules(m) |-> 0]

NoKeys == [s \in Streams |-> <<>>]

NoCall ==
    [keys |-> NoKeys, ptr |-> 0, before |-> <<>>, raised |-> "none"]

NoPost == [op |-> "none", x |-> <<>>, idx |-> <<>>]

\* no shared_forward is in progress: there are no locals
NoLocals == <<>>

\* The state after METHODS[method](args) ran on every replica of the world:
\* seed_everything gives every replica the same random queue, the pointer
\* is torch.zeros(1).
Built(h, m, seed) ==
    /\ hparams = h
    /\ method = m
    /\ queue = [r \in Ranks(h) |->
                    IF m = "slip_mocov2" THEN RandnQueue(seed, h) ELSE <<>>]
    /\ queue_ptr = [r \in Ranks(h) |-> 0]
    /\ params = [r \in Ranks(h) |-> BuildParams(m)]
    /\ call = NoCall
    /\ hist = <<>>
    /\ step = 0
    /\ mode = "none"
    /\ pc = [r \in Ranks(h) |-> [at |-> "idle", seg |-> 0]]
    /\ loc = [r \in Ranks(h) |-> NoLocals]
    /\ posted = [r \in Ranks(h) |-> NoPost]
    /\ log = [r \in Ranks(h) |-> <<>>]
    /\ out = [r \in Ranks(h) |-> <<>>]
    /\ entry = [r \in Ranks(h) |-> <<>>]

\* ------------------------------------- the queue called directly

\* The batches handed to _dequeue_and_enqueue: the n-th call's keys of
\* batch size b, either
\*   "basis": every row is the unit vector e_((n-1) mod D), in both streams
\*            (rows (1,0) in the first call, (0,1) in the second, ...);
\*   "fresh": rows that occur nowhere else, in no other call, row or stream.
KeysOf(n, b, kind, h) ==
    [s \in Streams |-> [i \in 0 .. (b - 1) |-> [d \in Dims(h) |->
        IF kind = "basis"
        THEN (IF d = (n - 1) % h.mocov2_proj_output_dim THEN 1 ELSE 0)
        ELSE 2 + (((n * 2 + s) * (h.queue_size + 1) + i)
                    * h.mocov2_proj_output_dim) + d]]]

InitQueue ==
    \E h \in QueueHparams, seed \in Seeds : Built(h, "slip_mocov2", seed)

\* self._dequeue_and_enqueue(keys) on the instance of rank 0
Call_dequeue_and_enqueue(b, kind) ==
    /\ Len(hist) < MaxCalls
    /\ LET keys == KeysOf(Len(hist) + 1, b, kind, hparams)
           res == DequeueAndEnqueue(queue[0], queue_ptr[0], keys, hparams)
       IN  /\ queue' = [queue EXCEPT ![0] = res.queue]
           /\ queue_ptr' = [queue_ptr EXCEPT ![0] = res.queue_ptr]
           /\ call' = [keys |-> keys, ptr |-> queue_ptr[0],
                       before |-> queue[0], raised |-> res.raised]
           /\ hist' = Append(hist, [batch_size |-> b, kind |-> kind,
                                    raised |-> res.raised])
    /\ UNCHANGED <<hparams, method, params, step, mode, pc, loc, posted,
                   log, out, entry>>

NextQueue ==
    \E b \in BatchSizes, kind \in {"basis", "fresh"} :
        Call_dequeue_and_enqueue(b, kind)

\* One SLIP_MOCOV2 instance whose _dequeue_and_enqueue is called directly.
Spec == InitQueue /\ [][NextQueue]_vars

\* ---------------------------------------------- claims on the queue

CallMade == call.raised # "none"

CallBatch == Shape1(call.keys)

CallDivides == CallBatch >= 1 /\ hparams.queue_size % CallBatch = 0

\* What C1 says of a call that was made with ptr = call.ptr: every key row
\* sits at column ptr + i of its stream, every other column is as before,
\* and the pointer is (ptr + batch) mod C.
CallStored ==
    /\ \A s \in Streams : \A i \in DOMAIN call.keys[s] :
          /\ call.ptr + i \in Cols(hparams)
          /\ Column(queue[0], s, call.ptr + i) = call.keys[s][i]
    /\ \A s \in Streams : \A c \in Cols(hparams) :
          (c < call.ptr \/ c >= call.ptr + CallBatch)
              => Column(queue[0], s, c) = Column(call.before, s, c)
    /\ queue_ptr[0] = (call.ptr + CallBatch) % hparams.queue_size

\* C1 as stated: whenever _dequeue_and_enqueue was called with a batch size
\* that evenly divides the capacity, whatever the pointer was, the keys are
\* stored at columns ptr .. ptr+batch-1 and the pointer is (ptr+batch) mod C.
C1_AsStated == (CallMade /\ CallDivides) => CallStored

\* C1: whenever _dequeue_and_enqueue was called with a batch size that evenly
\* divides the capacity and with a pointer such that ptr + batch <= C, the
\* call returns, key row i of stream s is at column ptr + i of stream s,
\* every other column is unchanged and the pointer is (ptr + batch) mod C.
C1_EnqueueStores ==
    (CallMade /\ CallDivides /\ call.ptr + CallBatch <= hparams.queue_size)
        => (call.raised = "ok" /\ CallStored)

\* a call that stored two or more distinct rows away from column 0
C1_Witness ==
    /\ call.raised = "ok"
    /\ call.ptr > 0
    /\ CallBatch >= 2
    /\ call.keys[0][0] # call.keys[0][1]

\* the calls so far were all made with batch size b and keys of this kind
AllCalls(b, kind) ==
    \A j \in 1 .. Len(hist) : hist[j].batch_size = b /\ hist[j].kind = kind

\* C2: from a fresh queue, after C/batch calls with distinct batches of one
\* size (all rows distinct), every enqueued row is in exactly one column of
\* its stream, every column holds an enqueued row (nothing of the initial
\* content is left) and the pointer is 0 again; and with C = 8, batch = 4,
\* D = 2, enqueuing rows (1,0) and then rows (0,1) leaves (1,0) in the first
\* half, (0,1) in the second half, and the pointer at 0.
C2_FullCycle ==
    /\ \A b \in 1 .. hparams.queue_size :
        (/\ hparams.queue_size % b = 0
         /\ Len(hist) = hparams.queue_size \div b
         /\ AllCalls(b, "fresh"))
        => /\ queue_ptr[0] = 0
           /\ \A s \in Streams :
                /\ \A j \in 1 .. Len(hist) : \A i \in 0 .. (b - 1) :
                     Cardinality({ c \in Cols(hparams) :
                        Column(queue[0], s, c)
                            = KeysOf(j, b, "fresh", hparams)[s][i] }) = 1
                /\ \A c \in Cols(hparams) :
                     \E j \in 1 .. Len(hist) : \E i \in 0 .. (b - 1) :
                        Column(queue[0], s, c)
                            = KeysOf(j, b, "fresh", hparams)[s][i]
    /\ (/\ hparams.queue_size = 8
        /\ hparams.mocov2_proj_output_dim = 2
        /\ Len(hist) = 2
        /\ AllCalls(4, "basis"))
        => /\ queue_ptr[0] = 0
           /\ \A s \in Streams : \A c \in Cols(hparams) :
                Column(queue[0], s, c)
                    = (IF c < 4 THEN [d \in 0 .. 1 |-> IF d = 0 THEN 1 ELSE 0]
                       ELSE [d \in 0 .. 1 |-> IF d = 0 THEN 0 ELSE 1])

\* the scenario of C2 ran: two calls of four basis rows on the queue of 8
C2_Witness ==
    /\ hparams.queue_size = 8
    /\ Len(hist) = 2
    /\ AllCalls(4, "basis")
    /\ queue_ptr[0] = 0

\* C3: a call whose batch size does not evenly divide queue_size raised an
\* exception, and the queue and the pointer are what they were before it.
C3_RejectsNonDivisor ==
    (CallMade /\ ~CallDivides)
        => /\ call.raised # "ok"
           /\ queue[0] = call.before
           /\ queue_ptr[0] = call.ptr

\* a non-dividing batch that would have fitted at the pointer was refused
C3_Witness ==
    /\ call.raised = "AssertionError"
    /\ call.ptr > 0
    /\ call.ptr + CallBatch <= hparams.queue_size

\* C4: the queue pointer of every instance is within 0 .. queue_size - 1.
C4_PointerInRange ==
    \A r \in DOMAIN queue_ptr :
        0 <= queue_ptr[r] /\ queue_ptr[r] < hparams.queue_size

\* the pointer moved off 0 and both failed and successful calls were made
C4_Witness ==
    /\ queue_ptr[0] > 0
    /\ \E j \in 1 .. Len(hist) : hist[j].raised = "ok"
    /\ \E j \in 1 .. Len(hist) : hist[j].raised = "RuntimeError"
    /\ \E j \in 1 .. Len(hist) : hist[j].raised = "AssertionError"

\* ------------------------------------------------ the world of replicas

Methods == {"slip_mocov2", "slip_simclr", "vicreg"}

\* The configurations the replicas are run with: (gpus, batch_size) is
\* (1, 2), (2, 1) or (2, 2), and the queue holds two global batches.
StepHparams ==
    { [queue_size |-> 2 * g * b, mocov2_proj_output_dim |-> 2, gpus |-> g,
       num_nodes |-> 1, batch_size |-> b] :
         <<g, b>> \in {<<1, 2>>, <<2, 1>>, <<2, 2>>} }

\* The worlds the barrier is followed in: one, two and three replicas.
FairHparams ==
    { [queue_size |-> 2 * g * b, mocov2_proj_output_dim |-> 2, gpus |-> g,
       num_nodes |-> 1, batch_size |-> b] :
         <<g, b>> \in {<<1, 2>>, <<2, 1>>, <<3, 1>>} }

AllRanks == UNION { Ranks(h) : h \in StepHparams \cup FairHparams }

\* rows of the global batch
GlobalBatch(h) == WorldSize(h) * h.batch_size

Rows(h) == 0 .. (h.batch_size - 1)

GlobalRows(h) == 0 .. (GlobalBatch(h) - 1)

\* The dataset sample that row i of replica r's batch of step t holds
\* (every step draws samples no earlier step drew).
Sample(h, t, r, i) == ((t - 1) * WorldSize(h) + r) * h.batch_size + i

\* The inputs of a sample: its clip view (0), its two augmented views
\* (1, 2) and its text encoding (3), each a code of its own.
Input(view, sample) == 4 * sample + view + 1

InputBatch(h, t, r, view) ==
    [i \in Rows(h) |-> Input(view, Sample(h, t, r, i))]

\* The networks, as black boxes from one input to a D-vector that is told
\* from the output of every other network and for every other input. Raw
\* outputs are even codes; normalize turns a code into the odd code next
\* to it and leaves an odd (already unit-norm) code alone.
NetId(net) ==
    CASE net = "img_clip" -> 1
      [] net = "text_clip" -> 2
      [] net = "mocov2" -> 3
      [] net = "mocov2_ema" -> 4
      [] net = "simclr" -> 5
      [] OTHER -> 6

InputSpace(h) == 4 * (MaxSteps + 1) * GlobalBatch(h) + 5

Forward(net, x, h) ==
    [i \in DOMAIN x |-> [d \in Dims(h) |->
        2 * (((NetId(net) * InputSpace(h) + x[i]) * h.mocov2_proj_output_dim) + d)]]

\* nn.functional.normalize(x, dim=1) of a (b, D) batch
Normalize(x) ==
    [i \in DOMAIN x |-> [d \in DOMAIN x[i] |->
        IF x[i][d] % 2 = 1 THEN x[i][d] ELSE x[i][d] + 1]]

\* torch.cat((a, b)) of two batches with the same number of rows
Cat(a, b) ==
    LET n == Cardinality(DOMAIN a)
    IN  [i \in 0 .. (2 * n - 1) |-> IF i < n THEN a[i] ELSE b[i - n]]

\* ------------------------------------------------------- collectives

\* gather / all_gather: the contributions of all replicas concatenated in
\* rank order (xs[r] is the contribution of rank r, every one of n rows)
ConcatAll(xs, n) ==
    [g \in 0 .. (Cardinality(DOMAIN xs) * n - 1) |-> xs[g \div n][g % n]]

\* torch.randperm(N): the permutations of 0 .. N-1
Perms(n) ==
    { f \in [0 .. (n - 1) -> 0 .. (n - 1)] :
        \A a, b \in 0 .. (n - 1) : f[a] = f[b] => a = b }

\* torch.argsort of a permutation: its inverse
Argsort(perm) ==
    [v \in DOMAIN perm |-> CHOOSE a \in DOMAIN perm : perm[a] = v]

\* _batch_shuffle_ddp on rank r: the rows idx_shuffle.view(W, -1)[r] of the
\* gathered batch, and the inverse permutation
BatchShuffleDDP(xs, n, r, idx_shuffle) ==
    LET x_gather == ConcatAll(xs, n)
    IN  [x |-> [i \in 0 .. (n - 1) |-> x_gather[idx_shuffle[r * n + i]]],
         idx |-> Argsort(idx_shuffle)]

\* _batch_unshuffle_ddp on rank r: the rows idx_unshuffle.view(W, -1)[r]
\* of the gathered batch
BatchUnshuffleDDP(xs, n, r, idx_unshuffle) ==
    LET x_gather == ConcatAll(xs, n)
    IN  [i \in 0 .. (n - 1) |-> x_gather[idx_unshuffle[r * n + i]]]

\* ema(online, target, decay): target <- decay*target + (1-decay)*online,
\* with the decay as a fraction and parameters as integers
ema_decay == [num |-> 1, den |-> 2]

Ema(online, target) ==
    (ema_decay.num * target + (ema_decay.den - ema_decay.num) * online)
        \div ema_decay.den

\* --------------------------------------------- SLIP_MOCOV2.shared_forward

\* The collectives shared_forward invokes, in program order (the mode
\* argument is accepted and never read).
\* (CollectivesTrainOnlyQueue: a faulty variant that gathers the keys and
\* updates the queue in training steps only)
CollectivesTrainOnlyQueue(m, md) ==
    CASE m = "slip_mocov2" ->
            IF md = "train"
            THEN <<"all_gather", "all_gather", "shuffle", "shuffle",
                   "unshuffle", "unshuffle", "gather", "gather">>
            ELSE <<"all_gather", "all_gather", "shuffle", "shuffle",
                   "unshuffle", "unshuffle">>
      [] m = "slip_simclr" -> <<"all_gather", "all_gather", "gather">>
      [] OTHER -> <<>>

Collectives(m, md) ==
    CASE m = "slip_mocov2" ->
            <<"all_gather", "all_gather", "shuffle", "shuffle",
              "unshuffle", "unshuffle", "gather", "gather">>
      [] m = "slip_simclr" -> <<"all_gather", "all_gather", "gather">>
      [] OTHER -> <<>>

\* what the j-th segment of the program ends with: a collective, or return
SegmentEnd(m, md, j) ==
    IF j <= Len(Collectives(m, md)) THEN Collectives(m, md)[j] ELSE "return"

\* line 89: q1, q2 = normalize(q1, dim=1), normalize(q1, dim=1)
NormalizedQueries(q1, q2) == <<Normalize(q1), Normalize(q1)>>

\* line 101: which inverse record the keys of view v are unshuffled with
\* (UnshuffleIdxSwapped: a faulty variant that crosses the two records)
UnshuffleIdxSwapped(l, v) ==
    IF v = 1 THEN l.idx_unshuffle2 ELSE l.idx_unshuffle1

UnshuffleIdx(l, v) ==
    IF v = 1 THEN l.idx_unshuffle1 ELSE l.idx_unshuffle2

\* line 104: queue = self.queue.clone().detach(): a copy of the buffer,
\* where a plain reference to self.queue would alias it
QueueAlias(q) == [alias |-> TRUE, data |-> <<>>]

QueueClone(q) == [alias |-> FALSE, data |-> q]

\* the tensor the local "queue" of replica r denotes now
LocalQueue(r) ==
    IF loc[r].queue.alias THEN queue[r] ELSE loc[r].queue.data

\* lines 105-106: the two terms of ssl_loss, each mocov2_loss(q, k, queue[s])
SslTerms(l) ==
    << [q |-> l.q1, k |-> l.k2, stream |-> 1],
       [q |-> l.q2, k |-> l.k1, stream |-> 0] >>

\* line 109: keys = torch.stack((gather(k1), gather(k2)))
\* (KeysLocalOnly: a faulty variant that stacks the replica's own keys)
KeysLocalOnly(l) == [s \in Streams |-> IF s = 0 THEN l.k1 ELSE l.k2]

KeysToEnqueue(l) ==
    [s \in Streams |-> IF s = 0 THEN l.gathered1 ELSE l.gathered2]

\* line 114 / slip_simclr.py line 61 / vicreg.py line 42: the returned mapping
Returned(m) ==
    IF m = "vicreg"
    THEN [loss |-> "ssl_loss"]
    ELSE [loss |-> "c_loss + ssl_scale * ssl_loss",
          clip_loss |-> "c_loss", ssl_loss |-> "ssl_loss"]

\* the locals at entry: batch unpacked and stacked (lines 68-70)
MocoEntry(h, t, r) ==
    [images1 |-> InputBatch(h, t, r, 1), images2 |-> InputBatch(h, t, r, 2),
     text_encodings |-> InputBatch(h, t, r, 3),
     image_embeddings |-> <<>>, text_embeddings |-> <<>>,
     q1 |-> <<>>, q2 |-> <<>>, images1_k |-> <<>>, images2_k |-> <<>>,
     idx_unshuffle1 |-> <<>>, idx_unshuffle2 |-> <<>>,
     k1 |-> <<>>, k2 |-> <<>>, queue |-> [alias |-> FALSE, data |-> <<>>],
     ssl_terms |-> <<>>, gathered1 |-> <<>>, gathered2 |-> <<>>]

\* Replica r goes on to the collective `op` with contribution x (and the
\* inverse record idx for an unshuffle) and blocks in it.
Post(r, l, op, x, idx) ==
    /\ loc' = [loc EXCEPT ![r] = l]
    /\ posted' = [posted EXCEPT ![r] = [op |-> op, x |-> x, idx |-> idx]]
    /\ log' = [log EXCEPT ![r] = Append(@, op)]
    /\ pc' = [pc EXCEPT ![r].at = "wait"]

\* Replica r runs the next segment of SLIP_MOCOV2.shared_forward: the code
\* from where it stands to its next collective call, or to its return.
shared_forward_mocov2(r) ==
    /\ method = "slip_mocov2"
    /\ pc[r].at = "run"
    /\ LET j == pc[r].seg
           l == loc[r]
           op == SegmentEnd(method, mode, j)
       IN  IF op = "return"
           THEN \* lines 109-114: stack, _dequeue_and_enqueue, return
                LET keys == KeysToEnqueue(l)
                    res == DequeueAndEnqueue(queue[r], queue_ptr[r], keys, hparams)
                IN  /\ queue' = [queue EXCEPT ![r] = res.queue]
                    /\ queue_ptr' = [queue_ptr EXCEPT ![r] = res.queue_ptr]
                    /\ pc' = [pc EXCEPT ![r].at =
                                IF res.raised = "ok" THEN "returned" ELSE "raised"]
                    /\ out' = [out EXCEPT ![r] =
                                IF res.raised = "ok" THEN Returned(method) ELSE <<>>]
                    /\ UNCHANGED <<params, loc, posted, log>>
           ELSE /\ CASE j = 1 -> \* lines 74-76: all_gather(image_embeddings)
                        Post(r, [l EXCEPT
                                  !.image_embeddings = Forward("img_clip", l.images1, hparams),
                                  !.text_embeddings = Forward("text_clip", l.text_encodings, hparams)],
                             op, Forward("img_clip", l.images1, hparams), <<>>)
                     [] j = 2 -> \* line 76: all_gather(text_embeddings)
                        Post(r, l, op, l.text_embeddings, <<>>)
                     [] j = 3 -> \* lines 78-93: clip loss, ema, queries, shuffle(images1)
                        LET q == NormalizedQueries(Forward("mocov2", l.images1, hparams),
                                                    Forward("mocov2", l.images2, hparams))
                        IN  Post(r, [l EXCEPT !.q1 = q[1], !.q2 = q[2]],
                                 op, l.images1, <<>>)
                     [] j = 4 -> \* line 94: shuffle(images2)
                        Post(r, l, op, l.images2, <<>>)
                     [] j = 5 -> \* lines 96-101: momentum keys, unshuffle(k1, ..)
                        LET k1 == Normalize(Forward("mocov2_ema", l.images1_k, hparams))
                            k2 == Normalize(Forward("mocov2_ema", l.images2_k, hparams))
                        IN  Post(r, [l EXCEPT !.k1 = k1, !.k2 = k2],
                                 op, k1, UnshuffleIdx(l, 1))
                     [] j = 6 -> \* line 101: unshuffle(k2, ..)
                        Post(r, l, op, l.k2, UnshuffleIdx(l, 2))
                     [] j = 7 -> \* lines 104-109: snapshot, ssl_loss, gather(k1)
                        Post(r, [l EXCEPT !.queue = QueueClone(queue[r]),
                                          !.ssl_terms = SslTerms(l)],
                             op, l.k1, <<>>)
                     [] OTHER -> \* line 109: gather(k2)
                        Post(r, l, op, l.k2, <<>>)
                /\ params' = [params EXCEPT ![r] =
                        IF j = 3 \* lines 82-83: the two momentum updates
                        THEN [@ EXCEPT
                               !.img_backbone_ema =
                                    Ema(params[r].img_backbone, @),
                               !.mocov2_projector_ema =
                                    Ema(params[r].mocov2_projector, @)]
                        ELSE @]
                /\ UNCHANGED <<queue, queue_ptr, out>>
    /\ UNCHANGED <<hparams, method, call, hist, step, mode, entry>>

\* --------------------------------------------- SLIP_SIMCLR.shared_forward

SimclrEntry(h, t, r) ==
    [images_clip |-> InputBatch(h, t, r, 0),
     images_ssl1 |-> InputBatch(h, t, r, 1),
     images_ssl2 |-> InputBatch(h, t, r, 2),
     text_encodings |-> InputBatch(h, t, r, 3),
     image_embeddings |-> <<>>, text_embeddings |-> <<>>,
     z1 |-> <<>>, z2 |-> <<>>, z |-> <<>>]

\* Replica r runs the next segment of SLIP_SIMCLR.shared_forward.
shared_forward_simclr(r) ==
    /\ method = "slip_simclr"
    /\ pc[r].at = "run"
    /\ LET j == pc[r].seg
           l == loc[r]
           op == SegmentEnd(method, mode, j)
       IN  IF op = "return"
           THEN \* lines 57-61: the criterion's value, the final loss, return
                /\ pc' = [pc EXCEPT ![r].at = "returned"]
                /\ out' = [out EXCEPT ![r] = Returned(method)]
                /\ UNCHANGED <<loc, posted, log>>
           ELSE /\ CASE j = 1 -> \* lines 48-50: all_gather(image_embeddings)
                        Post(r, [l EXCEPT
                                  !.image_embeddings = Forward("img_clip", l.images_clip, hparams),
                                  !.text_embeddings = Forward("text_clip", l.text_encodings, hparams)],
                             op, Forward("img_clip", l.images_clip, hparams), <<>>)
                     [] j = 2 -> \* line 50: all_gather(text_embeddings)
                        Post(r, l, op, l.text_embeddings, <<>>)
                     [] OTHER -> \* lines 52-57: clip loss, z1, z2, NT_Xent's gather
                        LET z1 == Forward("simclr", l.images_ssl1, hparams)
                            z2 == Forward("simclr", l.images_ssl2, hparams)
                        IN  Post(r, [l EXCEPT !.z1 = z1, !.z2 = z2],
                                 op, Cat(z1, z2), <<>>)
                /\ UNCHANGED out
    /\ UNCHANGED <<hparams, method, queue, queue_ptr, params, call, hist,
                   step, mode, entry>>

\* -------------------------------------------------- VICREG.shared_forward

VicregEntry(h, t, r) ==
    [images_ssl1 |-> InputBatch(h, t, r, 1),
     images_ssl2 |-> InputBatch(h, t, r, 2),
     z1 |-> <<>>, z2 |-> <<>>]

\* Replica r runs VICREG.shared_forward (lines 31-42): no collective.
shared_forward_vicreg(r) ==
    /\ method = "vicreg"
    /\ pc[r].at = "run"
    /\ loc' = [loc EXCEPT ![r] =
                [@ EXCEPT !.z1 = Forward("vicreg", loc[r].images_ssl1, hparams),
                          !.z2 = Forward("vicreg", loc[r].images_ssl2, hparams)]]
    /\ pc' = [pc EXCEPT ![r].at = "returned"]
    /\ out' = [out EXCEPT ![r] = Returned(method)]
    /\ UNCHANGED <<hparams, method, queue, queue_ptr, params, call, hist,
                   step, mode, posted, log, entry>>

\* ------------------------------------------------- the collective barrier

\* What replica r receives from the collective all replicas are in, as an
\* update of its locals. idx_shuffle is the permutation rank 0 drew and
\* broadcast (read by a shuffle only).
Receive(m, r, l, j, idx_shuffle) ==
    LET op == posted[r].op
        xs == [q \in DOMAIN posted |-> posted[q].x]
        n == Cardinality(DOMAIN posted[r].x)
        all == ConcatAll(xs, n)
        sh == BatchShuffleDDP(xs, n, r, idx_shuffle)
        un == BatchUnshuffleDDP(xs, n, r, posted[r].idx)
    IN  IF m = "slip_simclr"
        THEN CASE j = 1 -> [l EXCEPT !.image_embeddings = all]
               [] j = 2 -> [l EXCEPT !.text_embeddings = all]
               [] OTHER -> [l EXCEPT !.z = all]
        ELSE CASE j = 1 -> [l EXCEPT !.image_embeddings = all]
               [] j = 2 -> [l EXCEPT !.text_embeddings = all]
               [] j = 3 -> [l EXCEPT !.images1_k = sh.x, !.idx_unshuffle1 = sh.idx]
               [] j = 4 -> [l EXCEPT !.images2_k = sh.x, !.idx_unshuffle2 = sh.idx]
               [] j = 5 -> [l EXCEPT !.k1 = un]
               [] j = 6 -> [l EXCEPT !.k2 = un]
               [] j = 7 -> [l EXCEPT !.gathered1 = all]
               [] OTHER -> [l EXCEPT !.gathered2 = all]

\* every replica of the world is blocked in the same collective
AllInCollective ==
    /\ \A r \in Ranks(hparams) : pc[r].at = "wait"
    /\ \A r \in Ranks(hparams) :
          posted[r].op = posted[0].op /\ pc[r].seg = pc[0].seg

\* The collective completes: every replica receives its result and goes on.
Collective ==
    /\ AllInCollective
    /\ \E idx_shuffle \in
            (IF posted[0].op = "shuffle"
             THEN Perms(GlobalBatch(hparams))
             ELSE { [g \in GlobalRows(hparams) |-> g] }) :
          loc' = [r \in Ranks(hparams) |->
                    Receive(method, r, loc[r], pc[r].seg, idx_shuffle)]
    /\ pc' = [r \in Ranks(hparams) |-> [at |-> "run", seg |-> pc[r].seg + 1]]
    /\ posted' = [r \in Ranks(hparams) |-> NoPost]
    /\ UNCHANGED <<hparams, method, queue, queue_ptr, params, call, hist,
                   step, mode, log, out, entry>>

\* ---------------------------------------------------- the steps

AllAt(where) == \A r \in Ranks(hparams) : pc[r].at = where

EntryLocals(m, h, t, r) ==
    CASE m = "slip_mocov2" -> MocoEntry(h, t, r)
      [] m = "slip_simclr" -> SimclrEntry(h, t, r)
      [] OTHER -> VicregEntry(h, t, r)

\* The trainer hands every replica its batch of the next step and calls
\* shared_forward(batch, batch_idx, md).
BeginStep(md) ==
    /\ AllAt("idle")
    /\ step < MaxSteps
    /\ step' = step + 1
    /\ mode' = md
    /\ pc' = [r \in Ranks(hparams) |-> [at |-> "run", seg |-> 1]]
    /\ loc' = [r \in Ranks(hparams) |-> EntryLocals(method, hparams, step + 1, r)]
    /\ log' = [r \in Ranks(hparams) |-> <<>>]
    /\ out' = [r \in Ranks(hparams) |-> <<>>]
    /\ entry' = queue
    /\ UNCHANGED <<hparams, method, queue, queue_ptr, params, call, hist, posted>>

\* training_step: shared_forward(batch, batch_idx, "train")
training_step == BeginStep("train")

\* validation_step: shared_forward(batch, batch_idx, "val")
validation_step == BeginStep("val")

\* learnable_params: the modules handed to the optimizer
LearnableParams(m) ==
    CASE m = "slip_mocov2" -> {"img_backbone", "mocov2_projector"}
      [] m = "slip_simclr" ->
            {"img_backbone", "text_backbone", "img_projector", "text_projector",
             "simclr_projector"}
      [] OTHER -> {"img_backbone", "vicreg_projector"}

\* Every replica's shared_forward returned: the step functions log the
\* losses; after a training step the trainer steps the optimizer on the
\* learnable parameters (the same averaged gradient on every replica).
EndStep ==
    /\ AllAt("returned")
    /\ pc' = [r \in Ranks(hparams) |-> [at |-> "idle", seg |-> 0]]
    /\ loc' = [r \in Ranks(hparams) |-> NoLocals]
    /\ params' = [r \in Ranks(hparams) |-> [x \in DOMAIN params[r] |->
            IF mode = "train" /\ x \in LearnableParams(method)
            THEN params[r][x] + 2 ELSE params[r][x]]]
    /\ UNCHANGED <<hparams, method, queue, queue_ptr, call, hist, step, mode,
                   posted, log, out, entry>>

\* (seed_everything: the run's one seed)
InitStep ==
    \E m \in Methods, h \in StepHparams : Built(h, m, 1)

NextStep ==
    \/ training_step
    \/ validation_step
    \/ \E r \in AllRanks : r \in Ranks(hparams) /\ shared_forward_mocov2(r)
    \/ \E r \in AllRanks : r \in Ranks(hparams) /\ shared_forward_simclr(r)
    \/ \E r \in AllRanks : r \in Ranks(hparams) /\ shared_forward_vicreg(r)
    \/ Collective
    \/ EndStep

\* The replicas of a world running training and validation steps.
SpecStep == InitStep /\ [][NextStep]_vars

\* Every replica is a running process, and a collective all replicas have
\* entered completes.
Fairness ==
    /\ \A r \in AllRanks : WF_vars(r \in Ranks(hparams) /\ shared_forward_mocov2(r))
    /\ \A r \in AllRanks : WF_vars(r \in Ranks(hparams) /\ shared_forward_simclr(r))
    /\ \A r \in AllRanks : WF_vars(r \in Ranks(hparams) /\ shared_forward_vicreg(r))
    /\ WF_vars(Collective)
    /\ WF_vars(EndStep)

InitFair ==
    \E m \in Methods, h \in FairHparams : Built(h, m, 1)

SpecStepFair == InitFair /\ [][NextStep]_vars /\ Fairness

\* ---------------------------------------------- claims on the steps

Moco == method = "slip_mocov2"

\* replica r has passed the collective that ends segment j
Passed(r, j) == pc[r].seg > j

\* replica r has computed ssl_loss (line 105) in the step in progress
LossComputed(r) ==
    pc[r].seg >= 8 \/ (pc[r].seg = 7 /\ pc[r].at # "run")

\* the momentum embedding of a batch of images, normalized (lines 96-99)
KeyOf(x) == Normalize(Forward("mocov2_ema", x, hparams))

\* the (b,) or (b, D) tensors the replicas hold in local `name`
Held(name) == [q \in Ranks(hparams) |-> loc[q][name]]

\* C5: on every replica, unshuffling what the shuffle returned, with the
\* inverse record that shuffle returned, gives back the replica's batch
\* (images1 and images2); and the keys k1, k2 after line 101 hold in row i
\* the momentum embedding of row i of the replica's own images1, images2.
C5_UnshuffleRestores ==
    \A r \in Ranks(hparams) : Moco =>
        /\ Passed(r, 3) =>
              BatchUnshuffleDDP(Held("images1_k"), hparams.batch_size, r,
                                loc[r].idx_unshuffle1) = loc[r].images1
        /\ Passed(r, 4) =>
              BatchUnshuffleDDP(Held("images2_k"), hparams.batch_size, r,
                                loc[r].idx_unshuffle2) = loc[r].images2
        /\ Passed(r, 5) => loc[r].k1 = KeyOf(loc[r].images1)
        /\ Passed(r, 6) => loc[r].k2 = KeyOf(loc[r].images2)

\* both keys are unshuffled in a world of two replicas, after two different
\* shuffles that sent the replica a row of its peer
C5_Witness ==
    /\ Moco
    /\ WorldSize(hparams) = 2
    /\ hparams.batch_size = 2
    /\ Passed(0, 6)
    /\ loc[0].idx_unshuffle1 # loc[0].idx_unshuffle2
    /\ loc[0].images1_k[0] = loc[1].images1[1]
    /\ loc[0].images1_k # loc[0].images1

\* column c of a (D, C) bank
BankColumn(bank, c) == [d \in DOMAIN bank |-> bank[d][c]]

\* C6: once a replica has computed ssl_loss, and up to its return, the
\* queue the loss reads is the replica's queue as it was before this step's
\* enqueue, and no column of the negatives of either term is one of the
\* step's own keys: not before the enqueue and not after it.
C6_NegativesAreSnapshot ==
    \A r \in Ranks(hparams) : (Moco /\ LossComputed(r)) =>
        /\ LocalQueue(r) = entry[r]
        /\ \A t \in 1 .. 2 : \A c \in Cols(hparams) :
              LET column == BankColumn(LocalQueue(r)[loc[r].ssl_terms[t].stream], c)
              IN  /\ \A i \in DOMAIN loc[r].k1 : column # loc[r].k1[i]
                  /\ \A i \in DOMAIN loc[r].k2 : column # loc[r].k2[i]
                  /\ \A i \in DOMAIN loc[r].gathered1 : column # loc[r].gathered1[i]
                  /\ \A i \in DOMAIN loc[r].gathered2 : column # loc[r].gathered2[i]

\* a replica returned from its second step: its enqueue changed the queue,
\* whose snapshot held the keys of the first step
C6_Witness ==
    /\ Moco
    /\ step = 2
    /\ pc[0].at = "returned"
    /\ queue[0] # entry[0]
    /\ entry[0] # RandnQueue(1, hparams)

\* C7, the fixed sequences of the claim
C7_Sequence ==
    CASE method = "slip_mocov2" ->
            <<"all_gather", "all_gather", "shuffle", "shuffle",
              "unshuffle", "unshuffle", "gather", "gather">>
      [] method = "slip_simclr" -> <<"all_gather", "all_gather", "gather">>
      [] OTHER -> <<>>

\* In both modes a replica's collectives so far are the start of the fixed
\* sequence of its method, and all of it once the replica returned; and
\* while a step is in progress some replica can run or the collective can
\* complete.
C7_Safe ==
    /\ \A r \in Ranks(hparams) :
          /\ Len(log[r]) <= Len(C7_Sequence)
          /\ log[r] = SubSeq(C7_Sequence, 1, Len(log[r]))
          /\ pc[r].at = "returned" => log[r] = C7_Sequence
    /\ AllAt("idle") \/ ENABLED NextStep

\* C7: every replica invokes the collectives of its method in the same
\* fixed order in every step, whatever the mode and the batch; no step is
\* ever stuck at a barrier, and every step that began completes on every
\* replica.
C7_CollectivesInStep ==
    /\ []C7_Safe
    /\ (~AllAt("idle")) ~> AllAt("idle")

\* three replicas all returned from a validation step of SLIP_MOCOV2
C7_Witness ==
    /\ Moco
    /\ WorldSize(hparams) = 3
    /\ mode = "val"
    /\ AllAt("returned")
    /\ Len(log[2]) = 8

\* C8 as stated: the queries of the two loss terms are the normalized
\* projections of the first and of the second view.
C8_AsStated ==
    \A r \in Ranks(hparams) : (Moco /\ LossComputed(r)) =>
        /\ loc[r].ssl_terms[1].q
              = Normalize(Forward("mocov2", loc[r].images1, hparams))
        /\ loc[r].ssl_terms[2].q
              = Normalize(Forward("mocov2", loc[r].images2, hparams))

\* C9 as stated: every variant returns "loss" and, next to it, named
\* sub-losses (clip_loss and ssl_loss for the SLIP variants).
C9_AsStated ==
    \A r \in Ranks(hparams) : pc[r].at = "returned" =>
        /\ "loss" \in DOMAIN out[r]
        /\ method \in {"slip_mocov2", "slip_simclr"}
              => {"clip_loss", "ssl_loss"} \subseteq DOMAIN out[r]
        /\ DOMAIN out[r] # {"loss"}

\* C10: replicas that are between steps (or returned from the same step)
\* hold the same queue and the same pointer.
C10_ReplicasAgree ==
    \A r, q \in Ranks(hparams) :
        (Moco /\ pc[r].at \in {"idle", "returned"}
              /\ pc[q].at \in {"idle", "returned"})
            => (queue[r] = queue[q] /\ queue_ptr[r] = queue_ptr[q])

\* two replicas with a batch of two each finished a step that enqueued
C10_Witness ==
    /\ Moco
    /\ WorldSize(hparams) = 2
    /\ hparams.batch_size = 2
    /\ AllAt("idle")
    /\ step = 1
    /\ queue_ptr[1] = 4
    /\ queue[0] # RandnQueue(1, hparams)

\* ------------------------------------- further claims on the queue

\* every call so far was made with a batch size that evenly divides the
\* capacity
AllCallsDivide ==
    \A j \in 1 .. Len(hist) :
        hist[j].batch_size >= 1 /\ hparams.queue_size % hist[j].batch_size = 0

\* every call so far was made with the one batch size b
AllCallsOfSize(b) == \A j \in 1 .. Len(hist) : hist[j].batch_size = b

\* the last call found room for its batch at the pointer: the slice
\* ptr:ptr+batch has exactly batch columns, none past the end, and the call
\* returned
CallFitted ==
    /\ call.ptr + CallBatch <= hparams.queue_size
    /\ Cardinality(SliceCols(call.ptr, call.ptr + CallBatch,
                             hparams.queue_size)) = CallBatch
    /\ call.raised = "ok"

\* C11 as stated: in a sequence of calls whose batch sizes all evenly divide
\* queue_size (and may differ from call to call), every call finds
\* ptr + batch <= queue_size and writes exactly batch columns.
C11_AsStated == (CallMade /\ AllCallsDivide) => CallFitted

\* C11: in a sequence of calls that all use the same batch size, one that
\* evenly divides queue_size, every call finds ptr + batch <= queue_size,
\* so the write into queue[:, :, ptr:ptr+batch] covers exactly batch columns
\* and never reaches past the end of the buffer.
C11_SameBatchFits ==
    \A b \in 1 .. hparams.queue_size :
        (CallMade /\ hparams.queue_size % b = 0 /\ AllCallsOfSize(b))
            => CallFitted

\* the fourth call of batch size 2 wrote the last two columns of the queue
C11_Witness ==
    /\ Len(hist) = 4
    /\ AllCallsOfSize(2)
    /\ call.ptr = hparams.queue_size - 2
    /\ call.raised = "ok"
    /\ queue_ptr[0] = 0


\* ------------------------------------------- further claims on the steps

\* the MoCo state of replica r: the feature queue, the queue pointer and the
\* parameters of the two momentum copies
MocoState(r) ==
    [queue |-> queue[r],
     queue_ptr |-> queue_ptr[r],
     img_backbone_ema |-> params[r].img_backbone_ema,
     mocov2_projector_ema |-> params[r].mocov2_projector_ema]

\* C12 as stated: no step taken while SLIP_MOCOV2 runs a validation step
\* (shared_forward with mode = "val") changes the feature queue, the queue
\* pointer or the parameters of either momentum copy, on any replica
C12_AsStated ==
    [][(Moco /\ mode = "val" /\ mode' = "val")
          => \A r \in Ranks(hparams) : MocoState(r)' = MocoState(r)]_vars


\* The modules a network is composed of: a backbone followed by a projector
\* (slip_mocov2.py lines 74-75, 86-87, 96-97; slip_simclr.py; vicreg.py).
NetModules(net) ==
    CASE net = "img_clip" -> {"img_backbone", "img_projector"}
      [] net = "text_clip" -> {"text_backbone", "text_projector"}
      [] net = "mocov2" -> {"img_backbone", "mocov2_projector"}
      [] net = "mocov2_ema" -> {"img_backbone_ema", "mocov2_projector_ema"}
      [] net = "simclr" -> {"img_backbone", "simclr_projector"}
      [] OTHER -> {"img_backbone", "vicreg_projector"}

\* The networks whose output enters the loss shared_forward returns: the two
\* CLIP towers (c_loss) and the SSL network (ssl_loss); for SLIP_MOCOV2 also
\* the momentum network, whose keys enter ssl_loss under no_grad.
LossNets(m) ==
    CASE m = "slip_mocov2" -> {"img_clip", "text_clip", "mocov2", "mocov2_ema"}
      [] m = "slip_simclr" -> {"img_clip", "text_clip", "simclr"}
      [] OTHER -> {"vicreg"}

\* The momentum copies _build_model makes with deepcopy and freezes.
MomentumCopies(m) ==
    IF m = "slip_mocov2" THEN {"img_backbone_ema", "mocov2_projector_ema"} ELSE {}

\* the online components whose output enters the returned loss
OnlineLossModules(m) ==
    UNION {NetModules(net) : net \in LossNets(m)} \ MomentumCopies(m)

\* C13 as stated: whenever SLIP_MOCOV2.shared_forward has returned its loss
\* on a replica, the components listed by learnable_params are exactly the
\* online components whose output entered that loss (image backbone, text
\* backbone, CLIP image projector, CLIP text projector, MoCo projector), and
\* no momentum copy is listed
C13_AsStated ==
    \A r \in Ranks(hparams) :
        (Moco /\ pc[r].at = "returned" /\ out[r] # <<>>)
            => /\ LearnableParams(method) = OnlineLossModules(method)
               /\ LearnableParams(method) \cap MomentumCopies(method) = {}

\* the same statement for SLIP_SIMCLR, whose learnable_params lists all five
\* of its components
SimclrListsAllLossModules ==
    \A r \in Ranks(hparams) :
        (method = "slip_simclr" /\ pc[r].at = "returned" /\ out[r] # <<>>)
            => LearnableParams(method) = OnlineLossModules(method)

====
